---- MODULE Spec2Model ----
(***************************************************************************)
(* Verification model of the ESGT ignition coordinator                     *)
(* (consciousness/esgt/coordinator.py) and of the part of the TIG fabric   *)
(* (consciousness/tig/fabric/core.py) that the coordinator drives.         *)
(*                                                                         *)
(* Execution is asyncio: a coroutine runs without interruption from one    *)
(* suspension point to the next.  Every action below is one such run of    *)
(* one initiate_esgt call (or one whole call of a synchronous method).     *)
(* Time is a discrete clock with TicksPerSecond clock units per second.    *)
(* Coherence values and salience totals are percentages (0.70 is 70).      *)
(***************************************************************************)
EXTENDS Integers, Sequences, FiniteSets, TLC

\* ------------------------------------------------------------ bounds
\* Concurrent callers of initiate_esgt.
NumCallers == 2
\* Events constructed (admitted attempts) in one behaviour.
MaxEvents == 2
\* Calls rejected by an admission gate in one behaviour.
MaxBlocked == 1
\* Callers of the concurrent launch.
NumBurstCallers == 5
\* Calls of the burst beyond the MAX_FREQUENCY_HZ the limiter admits.
BurstExtra == 2
\* Last value of the clock.
MaxTime == 2
\* Clock units per second.
TicksPerSecond == 2
\* Ticks kuramoto.synchronize may take (code: 300 ms / 5 ms).
MaxSyncTicks == 1
\* Iterations of the sustain loop (code: target_duration_ms / 5 ms).
MaxSustainTicks == 1
\* Ticks of the dissolve loop (code: range(10)).
DissolveTicks == 2
\* Nodes of the fabric.
NumNodes == 3
\* Admitted calls beyond the max_recent_events that fill the recent-event cap.
GatingExtra == 2
\* Task ids a decomposition draws its subtasks and their dependencies from.
MaxTasks == 3
\* Last value of the clock when the limiter's window is followed as it slides.
MaxRateTime == 3
\* Calls the limiter rejects while its window is followed.
MaxRateBlocked == 2
\* Iterations of the sustain loop of a call that runs alone.
SoloSustainTicks == 2
\* Nodes of the topologies whose metrics are computed.
MaxTopoNodes == 4
\* Nodes of each clique of the two cliques joined by a bridge node.
CliqueSize == 3
\* Events a bounded history would keep (the N of "most recent N").
HistoryN == 10
\* enter_esgt_mode calls not yet matched by an exit_esgt_mode call.
MaxModeDepth == 3

\* ------------------------------------------------- program constants
MAX_FREQUENCY_HZ == 10
MAX_CONCURRENT_EVENTS == 3
DEGRADED_SALIENCE_THRESHOLD == 85
BREAKER_FAILURE_THRESHOLD == 5
BREAKER_RECOVERY_TIMEOUT_S == 10
DEFAULT_TARGET_COHERENCE == 70
SIMULATED_CPU_CAPACITY == 60
SIMULATED_AROUSAL == 70

\* ---------------------------------------- configuration (TriggerConditions)
min_salience == 65
min_available_nodes == 2
refractory_period == 1
max_recent_events == 5
min_cpu_capacity == 40
min_arousal_level == 40
\* Conscious-level coherence (is_conscious_level).
CONSCIOUS_LEVEL == 50
\* The breaker of the HealthManager: failures that open it, clock units
\* until it lets a trial through.
send_failure_threshold == 2
send_recovery_timeout == 1

Callers == 1..NumBurstCallers
Nodes == 1..NumNodes
\* Total salience a request may carry: below min_salience, between
\* min_salience and the degraded-mode bar, above the degraded-mode bar.
SalienceLevels == {50, 70, 90}
\* Order parameter a tick of the network may produce.
CoherenceLevels == {30, 80}
NoSample == -1
NoTime == 0

VARIABLES
    now,                \* time.time(), in clock units
    pc,                 \* per caller: where its initiate_esgt call is suspended
    ev,                 \* per caller: index in events of the local `event`
    step,               \* per caller: loop counter of the loop it is suspended in
    ret,                \* per caller: what its last call returned
    rejected,           \* per caller: total salience of its last rejected request
    events,             \* every ESGTEvent constructed at coordinator.py:178
    event_history,      \* self.event_history (indexes into events)
    total_events,       \* self.total_events
    successful_events,  \* self.successful_events
    last_esgt_time,     \* self.last_esgt_time
    active_events,      \* self.active_events
    max_concurrent,     \* self.max_concurrent
    degraded_mode,      \* self.degraded_mode
    ignition_breaker,   \* self.ignition_breaker
    frequency_limiter,  \* self.frequency_limiter: admitted timestamps
    kuramoto,           \* self.kuramoto: the shared oscillator network
    tig_ref,            \* self.tig is not None
    tig_initialized,    \* TIGFabric._initialized
    node_state,         \* TIGFabric.nodes[n].node_state
    conn_weight,        \* weight of the connections of node n
    quota,              \* calls the callers still make: admitted, rejected;
                        \* sustain iterations their target_duration_ms allows
    initializing,       \* TIGFabric._initializing
    init_task,          \* TIGFabric._init_task: where the background task is
    graph,              \* TIGFabric.graph: "empty" or "generated"
    metrics,            \* TIGFabric.metrics: "default", "computed" or "none" (None)
    executor_open,      \* TIGFabric._executor accepts work
    monitoring,         \* the health-monitoring loop of the HealthManager runs
    stop_pc,            \* where a TIGFabric.stop call is suspended
    fab_ret,            \* the last fabric call that returned, and how
    node_breaker,       \* the HealthManager's breaker guarding send_to_node
    send_ret,           \* the last send_to_node call: delivery attempted, as the
                        \* half-open trial, result
    bcast_ret,          \* the last broadcast_global call: raised, the nodes
                        \* whose broadcast was started, the value returned
    esgt_calls,         \* enter_esgt_mode calls not yet matched by an exit
                        \* (open), and the most that ever were (peak)
    ignition_timestamps, \* self.ignition_timestamps (deque, maxlen 100)
    coherence_history,  \* self.coherence_history (deque, maxlen 10)
    topology,           \* TIGFabric.graph as a graph: nodes 0..n-1 and edges
    fabric_metrics,     \* TIGFabric.metrics: connectivity and bottleneck fields
    conn_active,        \* TIGFabric.nodes[n].connections[m].active
    prepared,           \* the participants _recruit_nodes returned and the
                        \* topology _build_topology built from them
    mission             \* a complex mission of the Orchestrator: the subtasks
                        \* of its decomposition, the locals of
                        \* _execute_with_dependencies, the synthesized status

callVars == <<pc, ev, step, ret, rejected>>
statVars == <<events, event_history, total_events, successful_events, last_esgt_time>>
gateVars == <<active_events, max_concurrent, degraded_mode, ignition_breaker, frequency_limiter>>
tigVars == <<tig_ref, tig_initialized, node_state, conn_weight>>
lifeVars == <<initializing, init_task, graph, metrics, executor_open, monitoring, stop_pc, fab_ret>>
sendVars == <<node_breaker, send_ret, bcast_ret>>
modeVars == <<esgt_calls>>
fabVars == <<lifeVars, sendVars, modeVars>>
healthVars == <<ignition_timestamps, coherence_history>>
topoVars == <<topology, fabric_metrics>>
prepVars == <<conn_active, prepared>>
orchVars == <<mission>>
coordVars == <<callVars, statVars, gateVars, kuramoto, tig_ref, quota, healthVars, topoVars, prepVars, orchVars>>
vars == <<now, callVars, statVars, gateVars, kuramoto, tigVars, quota, fabVars, healthVars, topoVars, prepVars, orchVars>>

\* ------------------------------------------------------------ ESGTEvent
NewEvent(t) ==
    [phase |-> "idle", phases |-> <<>>, finalized |-> FALSE, success |-> FALSE,
     reason |-> "", t0 |-> t, node_count |-> 0, coh_hist |-> <<>>, achieved |-> 0]

TransitionPhase(e, p) == [e EXCEPT !.phase = p, !.phases = Append(@, p)]

Finalize(e, s, r) == [e EXCEPT !.finalized = TRUE, !.success = s, !.reason = r]

WasSuccessful(e) == e.success

\* The except handler of initiate_esgt applied to the event.
FailEvent(e, r) == Finalize(TransitionPhase(e, "failed"), FALSE, r)

CreateBlockedEvent(reason) ==
    Finalize(TransitionPhase(NewEvent(now), "failed"), FALSE, reason)

\* The sample recorded last in place of the largest.
SeqLast(s) == s[Len(s)]

SeqMax(s) == CHOOSE m \in {s[i] : i \in DOMAIN s} : \A i \in DOMAIN s : s[i] <= m

\* ----------------------------------------------------- FrequencyLimiter
\* Timestamps of the trailing one-second window.
LimiterWindow == SelectSeq(frequency_limiter, LAMBDA t : now - t < TicksPerSecond)

LimiterAllows == Len(LimiterWindow) < MAX_FREQUENCY_HZ

LimiterAfterAllow ==
    IF LimiterAllows THEN Append(LimiterWindow, now) ELSE LimiterWindow

\* ------------------------------------------------------- CircuitBreaker
BreakerRecovered(b) ==
    b.state = "open" /\ now - b.last_failure >= BREAKER_RECOVERY_TIMEOUT_S * TicksPerSecond

\* is_open(): an open breaker whose recovery timeout has elapsed becomes
\* half-open and lets the trial through.
BreakerAfterIsOpen(b) == IF BreakerRecovered(b) THEN [b EXCEPT !.state = "half_open"] ELSE b

BreakerIsOpen(b) == BreakerAfterIsOpen(b).state = "open"

\* ------------------------------------------------------ KuramotoNetwork
UpdateNetwork(k, r) == [k EXCEPT !.ticks = @ + 1, !.coherence = r]

HalveCoupling(k) == [k EXCEPT !.halvings = @ + 1]

ResetAll(k) == [k EXCEPT !.ticks = 0]

IsConsciousLevel(r) == r >= CONSCIOUS_LEVEL

\* ------------------------------------------------------------ TIGFabric
Recruitable(n) == node_state[n] \in {"active", "esgt_mode"}

RecruitNodes == {n \in Nodes : Recruitable(n)}

EnterWeight(w) == IF (w * 3) \div 2 < 12 THEN (w * 3) \div 2 ELSE 12

\* An exit_esgt_mode that divides without the floor of 1.0.
ExitWeightNoFloor(w) == (w * 2) \div 3

ExitWeight(w) == IF (w * 2) \div 3 > 6 THEN (w * 2) \div 3 ELSE 6

EnterEsgtMode ==
    /\ node_state' = [n \in Nodes |-> "esgt_mode"]
    /\ conn_weight' = [n \in Nodes |-> EnterWeight(conn_weight[n])]

ExitEsgtMode ==
    /\ node_state' = [n \in Nodes |-> "active"]
    /\ conn_weight' = [n \in Nodes |-> ExitWeight(conn_weight[n])]

\* ------------------------------------------------------ trigger checks
CheckSalience(sal) == sal >= min_salience

CheckResources(available) ==
    available >= min_available_nodes /\ SIMULATED_CPU_CAPACITY >= min_cpu_capacity

RecentCount ==
    LET n == Len(event_history)
        lastTen == {i \in 1..n : i > n - 10}
    IN Cardinality({i \in lastTen : now - events[event_history[i]].t0 < TicksPerSecond})

CheckTemporalGating ==
    /\ (last_esgt_time > NoTime => now - last_esgt_time >= refractory_period)
    /\ RecentCount < max_recent_events

CheckArousal == SIMULATED_AROUSAL >= min_arousal_level

\* A _check_triggers without the temporal gating.
CheckTriggersNoGating(sal) ==
    IF ~CheckSalience(sal) THEN "Salience too low"
    ELSE IF ~tig_ref \/ metrics = "none" THEN "RAISE"
    ELSE IF ~CheckResources(Cardinality(RecruitNodes)) THEN "Insufficient resources"
    ELSE IF ~CheckArousal THEN "Arousal too low"
    ELSE ""

\* _check_triggers: "" when every condition holds, the failure reason
\* otherwise, "RAISE" when self.tig is None at get_metrics() or the
\* metrics it returns are None.
CheckTriggers(sal) ==
    IF ~CheckSalience(sal) THEN "Salience too low"
    ELSE IF ~tig_ref \/ metrics = "none" THEN "RAISE"
    ELSE IF ~CheckResources(Cardinality(RecruitNodes)) THEN "Insufficient resources"
    ELSE IF ~CheckTemporalGating THEN "Refractory period violation"
    ELSE IF ~CheckArousal THEN "Arousal too low"
    ELSE ""

\* A coordinator that tests the degraded-mode salience bar before the
\* frequency limiter.
GateReasonSalienceFirst(sal) ==
    IF degraded_mode /\ sal < DEGRADED_SALIENCE_THRESHOLD THEN "degraded_mode_low_salience"
    ELSE IF ~LimiterAllows THEN "frequency_limit_exceeded"
    ELSE IF Cardinality(active_events) >= max_concurrent THEN "max_concurrent_events"
    ELSE IF BreakerIsOpen(ignition_breaker) THEN "circuit_breaker_open"
    ELSE ""

\* A coordinator that does not consult the frequency limiter.
GateReasonNoLimiter(sal) ==
    IF Cardinality(active_events) >= max_concurrent THEN "max_concurrent_events"
    ELSE IF BreakerIsOpen(ignition_breaker) THEN "circuit_breaker_open"
    ELSE IF degraded_mode /\ sal < DEGRADED_SALIENCE_THRESHOLD THEN "degraded_mode_low_salience"
    ELSE ""

\* ------------------------------------------------------ admission gates
\* The reason of the gate that rejects the request, "" when all pass.
GateReason(sal) ==
    IF ~LimiterAllows THEN "frequency_limit_exceeded"
    ELSE IF Cardinality(active_events) >= max_concurrent THEN "max_concurrent_events"
    ELSE IF BreakerIsOpen(ignition_breaker) THEN "circuit_breaker_open"
    ELSE IF degraded_mode /\ sal < DEGRADED_SALIENCE_THRESHOLD THEN "degraded_mode_low_salience"
    ELSE ""

\* The breaker is consulted (and may move to half-open) only when the
\* first two gates have passed.
BreakerAfterGates ==
    IF LimiterAllows /\ Cardinality(active_events) < max_concurrent
    THEN BreakerAfterIsOpen(ignition_breaker) ELSE ignition_breaker

\* -------------------------------------------------------- FabricMetrics
\* A graph is [n |-> node count, edges |-> set of two-node sets]; its
\* nodes are 0..n-1.
GNodes(g) == 0..(g.n - 1)

Pairs(k) == {{a, b} : a, b \in 0..(k - 1)} \ {{a} : a \in 0..(k - 1)}

\* nx.Graph()
EmptyGraph == [n |-> 0, edges |-> {}]

\* FabricMetrics(): the fields the model follows, at their defaults.
DefaultMetrics ==
    [computed |-> FALSE,
     algebraic_connectivity |-> [num |-> 0, den |-> 1],
     has_feed_forward_bottlenecks |-> FALSE,
     bottleneck_locations |-> {}]

\* f"tig-node-{n:03d}": the prefix and the three decimal digits of n.
NodeId(n) == <<"tig-node-", (n \div 100) % 10, (n \div 10) % 10, n % 10>>

\* self.graph.degree()
Degree(g, v) == Cardinality({e \in g.edges : v \in e})

RECURSIVE ReachFrom(_, _, _)
\* The nodes reached from S in g without the nodes of `out`.
ReachFrom(g, out, S) ==
    LET more == S \cup {w \in GNodes(g) \ out : \E u \in S : {u, w} \in g.edges}
    IN IF more = S THEN S ELSE ReachFrom(g, out, more)

\* Connected components of g without the nodes of `out`.
Components(g, out) == {ReachFrom(g, out, {v}) : v \in GNodes(g) \ out}

\* nx.articulation_points: the nodes whose removal leaves more components.
ArticulationPoints(g) ==
    {v \in GNodes(g) : Cardinality(Components(g, {v})) > Cardinality(Components(g, {}))}

\* A connectivity metric taken from the largest degree.
ConnectivityProxyMaxDegree(g) ==
    [num |-> CHOOSE d \in {Degree(g, v) : v \in GNodes(g)} :
                \A v \in GNodes(g) : Degree(g, v) <= d,
     den |-> g.n]

\* algebraic_connectivity of _compute_metrics (core.py:309-313), as the
\* fraction min_degree / number_of_nodes; g is not empty.
ConnectivityProxy(g) ==
    [num |-> CHOOSE d \in {Degree(g, v) : v \in GNodes(g)} :
                \A v \in GNodes(g) : d <= Degree(g, v),
     den |-> g.n]

\* A bottleneck detection that sets the flag and lists nothing.
DetectBottlenecksNoList(g, m) ==
    IF ArticulationPoints(g) # {}
    THEN [m EXCEPT !.has_feed_forward_bottlenecks = TRUE, !.bottleneck_locations = {}]
    ELSE [m EXCEPT !.has_feed_forward_bottlenecks = FALSE, !.bottleneck_locations = {}]

\* _detect_bottlenecks (core.py:364-378); the list is followed as the set
\* of its elements.
DetectBottlenecks(g, m) ==
    IF ArticulationPoints(g) # {}
    THEN [m EXCEPT !.has_feed_forward_bottlenecks = TRUE,
                   !.bottleneck_locations = {NodeId(ap) : ap \in ArticulationPoints(g)}]
    ELSE [m EXCEPT !.has_feed_forward_bottlenecks = FALSE, !.bottleneck_locations = {}]

\* _compute_metrics (core.py:289-327): on the empty graph
\* nx.average_clustering raises before any of the fields followed here is
\* written.
ComputeMetrics ==
    /\ ~fabric_metrics.computed
    /\ IF topology.n = 0
       THEN fabric_metrics' = [fabric_metrics EXCEPT !.computed = TRUE]
       ELSE fabric_metrics' =
               DetectBottlenecks(topology,
                   [fabric_metrics EXCEPT !.computed = TRUE,
                                          !.algebraic_connectivity = ConnectivityProxy(topology)])
    /\ UNCHANGED <<now, callVars, statVars, gateVars, kuramoto, quota, healthVars, tigVars, fabVars,
                   topology, prepVars, orchVars>>

\* ---------------------------------------------------- get_health_metrics
RECURSIVE SeqSum(_)
SeqSum(q) == IF q = <<>> THEN 0 ELSE Head(q) + SeqSum(Tail(q))

\* ESGTCoordinator.get_health_metrics (coordinator.py:462-484).
GetHealthMetrics ==
    [frequency_hz |-> Len(SelectSeq(ignition_timestamps, LAMBDA t : now - t < TicksPerSecond)),
     active_events |-> Cardinality(active_events),
     degraded_mode |-> degraded_mode,
     average_coherence |-> IF coherence_history # <<>>
                           THEN SeqSum(coherence_history) \div Len(coherence_history)
                           ELSE 0,
     circuit_breaker_state |-> ignition_breaker.state,
     total_events |-> total_events,
     successful_events |-> successful_events]

\* ------------------------------------------------------------- initial
\* The lifecycle fields of a fabric on which initialize() has completed.
FabricInitialized ==
    /\ initializing = FALSE
    /\ init_task = "none"
    /\ graph = "generated"
    /\ metrics = "computed"
    /\ executor_open = TRUE
    /\ monitoring = TRUE
    /\ stop_pc = "idle"
    /\ fab_ret = [op |-> "initialize", raised |-> FALSE]

\* The graph and the metrics of a fabric after construction.
TopoInit ==
    /\ topology = EmptyGraph
    /\ fabric_metrics = DefaultMetrics

\* The HealthManager after construction.
SendInit ==
    /\ node_breaker = [state |-> "closed", failures |-> 0, last_failure |-> NoTime]
    /\ send_ret = [attempted |-> FALSE, trial |-> FALSE, ok |-> FALSE]
    /\ bcast_ret = [called |-> FALSE, raised |-> FALSE, attempted |-> {}, reached |-> 0]
    /\ esgt_calls = [open |-> 0, peak |-> 0]

\* Every connection of a new fabric is active; no ignition has prepared.
NotPrepared == [built |-> FALSE, participating |-> {}, topology |-> <<>>]

PrepInit ==
    /\ conn_active = [c \in Nodes \X Nodes |-> TRUE]
    /\ prepared = NotPrepared

\* An Orchestrator that executes no complex mission.
OrchIdle ==
    mission = [pc |-> "idle", dependencies |-> <<>>, pending_tasks |-> {}, ready_tasks |-> {},
               started |-> {}, executed |-> {}, task_results |-> <<>>, results |-> <<>>,
               status |-> "none"]

\* The coordinator after construction, with k callers that make at most
\* nEvents admitted and nBlocked rejected calls, of a target duration of
\* `ticks` sustain iterations.
CoordInitLasting(k, nEvents, nBlocked, ticks) ==
    /\ now = 1
    /\ pc = [c \in Callers |-> IF c <= k THEN "idle" ELSE "off"]
    /\ quota = [events |-> nEvents, blocked |-> nBlocked, sustain |-> ticks]
    /\ ev = [c \in Callers |-> 0]
    /\ step = [c \in Callers |-> 0]
    /\ rejected = [c \in Callers |-> 0]
    /\ ret = [c \in Callers |-> [kind |-> "none", id |-> 0, event |-> NewEvent(0)]]
    /\ events = <<>>
    /\ event_history = <<>>
    /\ total_events = 0
    /\ successful_events = 0
    /\ last_esgt_time = NoTime
    /\ active_events = {}
    /\ max_concurrent = MAX_CONCURRENT_EVENTS
    /\ degraded_mode = FALSE
    /\ ignition_breaker = [state |-> "closed", failures |-> 0, last_failure |-> NoTime]
    /\ frequency_limiter = <<>>
    /\ ignition_timestamps = <<>>
    /\ coherence_history = <<>>
    /\ kuramoto = [ticks |-> 0, halvings |-> 0, coherence |-> NoSample]
    /\ tig_ref = TRUE

\* The same with the target duration of MaxSustainTicks iterations.
CoordInit(k, nEvents, nBlocked) == CoordInitLasting(k, nEvents, nBlocked, MaxSustainTicks)

\* The coordinator after construction on a fabric on which initialize()
\* has completed.
InitWith(k, nEvents, nBlocked) ==
    /\ CoordInit(k, nEvents, nBlocked)
    /\ TopoInit
    /\ tig_initialized = TRUE
    /\ node_state = [n \in Nodes |-> "active"]
    /\ conn_weight = [n \in Nodes |-> 6]
    /\ FabricInitialized
    /\ SendInit
    /\ PrepInit
    /\ OrchIdle

\* ------------------------------------------------- pieces of a call
\* The call of caller c returns `e`, the event with index i (0: synthetic).
ReturnEvent(c, kind, i, e) ==
    /\ pc' = [pc EXCEPT ![c] = "idle"]
    /\ ev' = [ev EXCEPT ![c] = 0]
    /\ step' = [step EXCEPT ![c] = 0]
    /\ ret' = [ret EXCEPT ![c] = [kind |-> kind, id |-> i, event |-> e]]

\* The call suspends at `where`.
Suspend(c, where, i, k) ==
    /\ pc' = [pc EXCEPT ![c] = where]
    /\ ev' = [ev EXCEPT ![c] = i]
    /\ step' = [step EXCEPT ![c] = k]
    /\ UNCHANGED ret

\* An except handler that records the failed event twice.
CaughtRecordedTwice(c, e, why) ==
    /\ events' = [events EXCEPT ![ev[c]] = FailEvent(e, why)]
    /\ event_history' = Append(Append(event_history, ev[c]), ev[c])
    /\ ReturnEvent(c, "event", ev[c], FailEvent(e, why))

\* except Exception (coordinator.py:304-309): mark Failed, record, return.
Caught(c, e, why) ==
    /\ events' = [events EXCEPT ![ev[c]] = FailEvent(e, why)]
    /\ event_history' = Append(event_history, ev[c])
    /\ ReturnEvent(c, "event", ev[c], FailEvent(e, why))

\* A rejection that counts the attempt.
BlockedCallCounted(c, sal, reason) ==
    /\ ReturnEvent(c, "blocked", 0, CreateBlockedEvent(reason))
    /\ rejected' = [rejected EXCEPT ![c] = sal]
    /\ total_events' = total_events + 1
    /\ UNCHANGED <<events, event_history>>

\* ------------------------------------------------------------- actions
\* A gate rejects the call (coordinator.py:157-176, 134-145): a synthetic
\* failed event is returned and nothing else is touched.
BlockedCall(c, sal, reason) ==
    /\ ReturnEvent(c, "blocked", 0, CreateBlockedEvent(reason))
    /\ rejected' = [rejected EXCEPT ![c] = sal]
    /\ UNCHANGED <<events, event_history, total_events>>

\* An admission whose failed trigger check enters Prepare and is not
\* recorded.
AdmittedCallUnrecorded(c, sal) ==
    LET i == Len(events) + 1
        e0 == NewEvent(now)
        why == CheckTriggers(sal)
        participating == RecruitNodes
        e1 == [TransitionPhase(e0, "prepare") EXCEPT !.node_count = Cardinality(participating)]
    IN /\ total_events' = total_events + 1
       /\ UNCHANGED event_history
       /\ IF why = "RAISE"
          THEN /\ events' = Append(events, e0)
               /\ ReturnEvent(c, "raised", i, e0)
          ELSE IF why # ""
          THEN /\ events' = Append(events, FailEvent(e1, why))
               /\ ReturnEvent(c, "event", i, FailEvent(e1, why))
          ELSE IF Cardinality(participating) < min_available_nodes
          THEN /\ events' = Append(events, Finalize(e1, FALSE, "Insufficient nodes recruited"))
               /\ ReturnEvent(c, "event", i, Finalize(e1, FALSE, "Insufficient nodes recruited"))
          ELSE /\ events' = Append(events, TransitionPhase(e1, "synchronize"))
               /\ Suspend(c, "sync", i, 0)

\* The gates have passed (coordinator.py:178-225): the event is
\* constructed and counted, the triggers are checked, Prepare recruits,
\* Synchronize starts and suspends in kuramoto.synchronize.
AdmittedCall(c, sal) ==
    LET i == Len(events) + 1
        e0 == NewEvent(now)
        why == CheckTriggers(sal)
        participating == RecruitNodes
        e1 == [TransitionPhase(e0, "prepare") EXCEPT !.node_count = Cardinality(participating)]
    IN /\ total_events' = total_events + 1
       /\ IF why = "RAISE"
          THEN \* the error leaves initiate_esgt: no event is returned
               /\ events' = Append(events, e0)
               /\ UNCHANGED event_history
               /\ ReturnEvent(c, "raised", i, e0)
          ELSE IF why # ""
          THEN /\ events' = Append(events, FailEvent(e0, why))
               /\ event_history' = Append(event_history, i)
               /\ ReturnEvent(c, "event", i, FailEvent(e0, why))
          ELSE IF Cardinality(participating) < min_available_nodes
          THEN /\ events' = Append(events, Finalize(e1, FALSE, "Insufficient nodes recruited"))
               /\ UNCHANGED event_history
               /\ ReturnEvent(c, "event", i, Finalize(e1, FALSE, "Insufficient nodes recruited"))
          ELSE /\ events' = Append(events, TransitionPhase(e1, "synchronize"))
               /\ UNCHANGED event_history
               /\ Suspend(c, "sync", i, 0)

\* initiate_esgt from the call to its first suspension or its return.
InitiateESGT(c, sal) ==
    /\ pc[c] = "idle"
    /\ UNCHANGED <<fabVars, healthVars, topoVars, prepVars, orchVars>>
    /\ frequency_limiter' = LimiterAfterAllow
    /\ ignition_breaker' = BreakerAfterGates
    /\ UNCHANGED <<now, active_events, max_concurrent, degraded_mode, kuramoto, tigVars,
                   successful_events, last_esgt_time>>
    /\ IF GateReason(sal) # ""
       THEN /\ quota.blocked > 0
            /\ quota' = [quota EXCEPT !.blocked = @ - 1]
            /\ BlockedCall(c, sal, GateReason(sal))
       ELSE /\ quota.events > 0
            /\ quota' = [quota EXCEPT !.events = @ - 1]
            /\ AdmittedCall(c, sal)
            /\ UNCHANGED rejected

\* One tick of kuramoto.synchronize for the call of caller c.
SyncTick(c) ==
    /\ pc[c] = "sync"
    /\ UNCHANGED <<fabVars, healthVars, topoVars, prepVars, orchVars>>
    /\ step[c] < MaxSyncTicks
    /\ ~(step[c] > 0 /\ kuramoto.coherence >= DEFAULT_TARGET_COHERENCE)
    /\ \E r \in CoherenceLevels : kuramoto' = UpdateNetwork(kuramoto, r)
    /\ step' = [step EXCEPT ![c] = @ + 1]
    /\ UNCHANGED <<quota, now, pc, ev, ret, rejected, statVars, gateVars, tigVars>>

\* kuramoto.synchronize returns (coordinator.py:227-250): the coherence
\* check, then Broadcast up to the suspension in the PFC hook.
SyncReturn(c) ==
    /\ pc[c] = "sync"
    /\ UNCHANGED <<fabVars, healthVars, topoVars, prepVars, orchVars>>
    /\ step[c] > 0
    /\ step[c] = MaxSyncTicks \/ kuramoto.coherence >= DEFAULT_TARGET_COHERENCE
    /\ UNCHANGED <<quota, rejected, now, total_events, successful_events, last_esgt_time, gateVars, kuramoto,
                   tig_ref, tig_initialized>>
    /\ LET e == events[ev[c]]
           r == kuramoto.coherence
           e1 == TransitionPhase([e EXCEPT !.achieved = r], "broadcast")
       IN IF r = NoSample \/ ~IsConsciousLevel(r)
          THEN /\ events' = [events EXCEPT ![ev[c]] = Finalize(e, FALSE, "Sync failed")]
               /\ ReturnEvent(c, "event", ev[c], Finalize(e, FALSE, "Sync failed"))
               /\ UNCHANGED <<event_history, node_state, conn_weight>>
          ELSE IF ~tig_ref
          THEN /\ Caught(c, e1, "NoneType has no attribute enter_esgt_mode")
               /\ UNCHANGED <<node_state, conn_weight>>
          ELSE /\ events' = [events EXCEPT ![ev[c]] = e1]
               /\ EnterEsgtMode
               /\ Suspend(c, "hook", ev[c], 0)
               /\ UNCHANGED event_history

\* The PFC hook returns or raises; then broadcast_global is called
\* (coordinator.py:250-266, core.py:417-424).
HookReturn(c, ok) ==
    /\ pc[c] = "hook"
    /\ UNCHANGED <<fabVars, healthVars, topoVars, prepVars, orchVars>>
    /\ UNCHANGED <<quota, rejected, now, total_events, successful_events, last_esgt_time, gateVars, kuramoto,
                   tigVars>>
    /\ LET e == events[ev[c]]
       IN IF ~ok THEN Caught(c, e, "pfc error")
          ELSE IF ~tig_ref THEN Caught(c, e, "NoneType has no attribute broadcast_global")
          ELSE IF ~tig_initialized THEN Caught(c, e, "Fabric not initialized")
          ELSE /\ Suspend(c, "broadcast", ev[c], 0)
               /\ UNCHANGED <<events, event_history>>

\* Dissolve from its start to the first sleep (coordinator.py:277,
\* 419-430): halve the coupling, build the topology, tick once.
DissolveEntry(c, e, k) ==
    LET e1 == TransitionPhase(e, "dissolve")
    IN IF ~tig_ref
       THEN /\ kuramoto' = HalveCoupling(k)
            /\ Caught(c, e1, "NoneType has no attribute nodes")
       ELSE /\ \E r \in CoherenceLevels : kuramoto' = UpdateNetwork(HalveCoupling(k), r)
            /\ events' = [events EXCEPT ![ev[c]] = e1]
            /\ Suspend(c, "dissolve", ev[c], 1)
            /\ UNCHANGED event_history

\* One evaluation of the sustain loop condition (coordinator.py:407-417):
\* another tick and sample, or the end of Sustain and the start of Dissolve.
SustainLoop(c, e, k) ==
    \E go \in BOOLEAN :
        IF go
        THEN /\ k < quota.sustain
             /\ \E r \in CoherenceLevels :
                   /\ kuramoto' = UpdateNetwork(kuramoto, r)
                   /\ events' = [events EXCEPT ![ev[c]] = [e EXCEPT !.coh_hist = Append(@, r)]]
             /\ Suspend(c, "sustain", ev[c], k + 1)
             /\ UNCHANGED event_history
        ELSE DissolveEntry(c, e, kuramoto)

\* A protocol that sustains without entering the Sustain phase.
BroadcastReturnNoSustain(c) ==
    /\ pc[c] = "broadcast"
    /\ UNCHANGED <<fabVars, healthVars, topoVars, prepVars, orchVars>>
    /\ UNCHANGED <<quota, rejected, now, total_events, successful_events, last_esgt_time, gateVars, tigVars>>
    /\ SustainLoop(c, events[ev[c]], 0)

\* broadcast_global returns (coordinator.py:266-274): Sustain begins.
BroadcastReturn(c) ==
    /\ pc[c] = "broadcast"
    /\ UNCHANGED <<fabVars, healthVars, topoVars, prepVars, orchVars>>
    /\ UNCHANGED <<quota, rejected, now, total_events, successful_events, last_esgt_time, gateVars, tigVars>>
    /\ SustainLoop(c, TransitionPhase(events[ev[c]], "sustain"), 0)

\* The sleep of the sustain loop ends.
SustainStep(c) ==
    /\ pc[c] = "sustain"
    /\ UNCHANGED <<fabVars, healthVars, topoVars, prepVars, orchVars>>
    /\ UNCHANGED <<quota, rejected, now, total_events, successful_events, last_esgt_time, gateVars, tigVars>>
    /\ SustainLoop(c, events[ev[c]], step[c])

\* A sleep of the dissolve loop ends (coordinator.py:428-433, 283-302):
\* the next tick, or reset_all, exit_esgt_mode and the final record.
DissolveStep(c) ==
    /\ pc[c] = "dissolve"
    /\ UNCHANGED <<fabVars, healthVars, topoVars, prepVars, orchVars>>
    /\ UNCHANGED <<quota, rejected, now, gateVars, tig_ref, tig_initialized>>
    /\ LET e == events[ev[c]]
           e1 == IF e.coh_hist # <<>> THEN [e EXCEPT !.achieved = SeqMax(e.coh_hist)] ELSE e
           e2 == Finalize(TransitionPhase(e1, "complete"), TRUE, "")
       IN IF step[c] < DissolveTicks
          THEN /\ \E r \in CoherenceLevels : kuramoto' = UpdateNetwork(kuramoto, r)
               /\ step' = [step EXCEPT ![c] = @ + 1]
               /\ UNCHANGED <<pc, ev, ret, statVars, node_state, conn_weight>>
          ELSE /\ kuramoto' = ResetAll(kuramoto)
               /\ IF ~tig_ref
                  THEN /\ Caught(c, e, "NoneType has no attribute exit_esgt_mode")
                       /\ UNCHANGED <<total_events, successful_events, last_esgt_time,
                                      node_state, conn_weight>>
                  ELSE /\ ExitEsgtMode
                       /\ events' = [events EXCEPT ![ev[c]] = e2]
                       /\ event_history' = Append(event_history, ev[c])
                       /\ last_esgt_time' = now
                       /\ successful_events' =
                              IF WasSuccessful(e2) THEN successful_events + 1 ELSE successful_events
                       /\ ReturnEvent(c, "event", ev[c], e2)
                       /\ UNCHANGED total_events

\* An entry to degraded mode that leaves the concurrency cap alone.
EnterDegradedModeKeepsCap ==
    /\ degraded_mode' = TRUE
    /\ UNCHANGED <<fabVars, healthVars, topoVars, prepVars, orchVars>>
    /\ UNCHANGED <<quota, now, callVars, statVars, active_events, max_concurrent, ignition_breaker,
                   frequency_limiter, kuramoto, tigVars>>

\* ESGTCoordinator._enter_degraded_mode
EnterDegradedMode ==
    /\ degraded_mode' = TRUE
    /\ UNCHANGED <<fabVars, healthVars, topoVars, prepVars, orchVars>>
    /\ max_concurrent' = 1
    /\ UNCHANGED <<quota, now, callVars, statVars, active_events, ignition_breaker, frequency_limiter,
                   kuramoto, tigVars>>

\* ESGTCoordinator._exit_degraded_mode
ExitDegradedMode ==
    /\ degraded_mode' = FALSE
    /\ UNCHANGED <<fabVars, healthVars, topoVars, prepVars, orchVars>>
    /\ max_concurrent' = MAX_CONCURRENT_EVENTS
    /\ UNCHANGED <<quota, now, callVars, statVars, active_events, ignition_breaker, frequency_limiter,
                   kuramoto, tigVars>>

\* ESGTCoordinator.stop
CoordStop ==
    /\ tig_ref' = FALSE
    /\ UNCHANGED <<fabVars, healthVars, topoVars, prepVars, orchVars>>
    /\ event_history' = <<>>
    /\ active_events' = {}
    /\ UNCHANGED <<quota, now, callVars, events, total_events, successful_events, last_esgt_time,
                   max_concurrent, degraded_mode, ignition_breaker, frequency_limiter,
                   kuramoto, tig_initialized, node_state, conn_weight>>

\* The clock advances.
Tick ==
    /\ now < MaxTime
    /\ UNCHANGED <<fabVars, healthVars, topoVars, prepVars, orchVars>>
    /\ now' = now + 1
    /\ UNCHANGED <<quota, callVars, statVars, gateVars, kuramoto, tigVars>>

\* ---------------------------------------------------- TIGFabric lifecycle
\* The background task has been created and has not ended.
Running(t) == t \in {"created", "generate", "metrics"}

AllNodes(st) == [n \in Nodes |-> st]

\* What a fabric call leaves alone besides the fabric itself.
FabricFrame == UNCHANGED <<now, coordVars, sendVars, modeVars>>

Returned(op, raised) == fab_ret' = [op |-> op, raised |-> raised]

\* An initialize() that leaves out the activation of the nodes.
FabInitializeNoActivation ==
    /\ FabricFrame
    /\ UNCHANGED <<initializing, init_task, executor_open, stop_pc>>
    /\ IF tig_initialized
       THEN /\ Returned("initialize", TRUE)
            /\ UNCHANGED <<graph, metrics, monitoring, tig_initialized, node_state, conn_weight>>
       ELSE /\ graph' = "generated"
            /\ conn_weight' = AllNodes(6)
            /\ node_state' = AllNodes("initializing")
            /\ IF metrics = "none"
               THEN /\ Returned("initialize", TRUE)
                    /\ UNCHANGED <<metrics, monitoring, tig_initialized>>
               ELSE /\ metrics' = "computed"
                    /\ monitoring' = TRUE
                    /\ tig_initialized' = TRUE
                    /\ Returned("initialize", FALSE)

\* TIGFabric.initialize (core.py:77-127): one uninterrupted run.
\* _instantiate_nodes replaces every node by a new one in state
\* Initializing; _compute_metrics raises when self.metrics is None.
FabInitialize ==
    /\ FabricFrame
    /\ UNCHANGED <<initializing, init_task, executor_open, stop_pc>>
    /\ IF tig_initialized
       THEN /\ Returned("initialize", TRUE)
            /\ UNCHANGED <<graph, metrics, monitoring, tig_initialized, node_state, conn_weight>>
       ELSE /\ graph' = "generated"
            /\ conn_weight' = AllNodes(6)
            /\ IF metrics = "none"
               THEN /\ node_state' = AllNodes("initializing")
                    /\ Returned("initialize", TRUE)
                    /\ UNCHANGED <<metrics, monitoring, tig_initialized>>
               ELSE /\ metrics' = "computed"
                    /\ node_state' = AllNodes("active")
                    /\ monitoring' = TRUE
                    /\ tig_initialized' = TRUE
                    /\ Returned("initialize", FALSE)

\* An initialize_async() that looks at _initializing only.
FabInitializeAsyncUnguarded ==
    /\ FabricFrame
    /\ UNCHANGED <<graph, metrics, executor_open, monitoring, stop_pc, tigVars>>
    /\ IF initializing
       THEN /\ Returned("initialize_async", FALSE)
            /\ UNCHANGED <<initializing, init_task>>
       ELSE /\ initializing' = TRUE
            /\ init_task' = "created"
            /\ Returned("initialize_async", FALSE)

\* TIGFabric.initialize_async (core.py:129-159): the task is created,
\* not run.
FabInitializeAsync ==
    /\ FabricFrame
    /\ UNCHANGED <<graph, metrics, executor_open, monitoring, stop_pc, tigVars>>
    /\ IF tig_initialized
       THEN /\ Returned("initialize_async", TRUE)
            /\ UNCHANGED <<initializing, init_task>>
       ELSE IF initializing
       THEN /\ Returned("initialize_async", FALSE)
            /\ UNCHANGED <<initializing, init_task>>
       ELSE /\ initializing' = TRUE
            /\ init_task' = "created"
            /\ Returned("initialize_async", FALSE)

\* except Exception in _background_init (core.py:211-214).
BgFailed ==
    /\ initializing' = FALSE
    /\ init_task' = "failed"

\* _background_init from its start to run_in_executor(generate)
\* (core.py:163-172); a shut-down executor refuses the work.
BgStart ==
    /\ init_task = "created"
    /\ FabricFrame
    /\ UNCHANGED <<graph, metrics, executor_open, monitoring, stop_pc, fab_ret, tigVars>>
    /\ IF executor_open
       THEN init_task' = "generate" /\ UNCHANGED initializing
       ELSE BgFailed

\* generate has returned or raised in the worker (core.py:172-182).
BgGenerateDone(ok) ==
    /\ init_task = "generate"
    /\ FabricFrame
    /\ UNCHANGED <<metrics, executor_open, monitoring, stop_pc, fab_ret, tig_initialized>>
    /\ IF ok
       THEN /\ graph' = "generated"
            /\ node_state' = AllNodes("initializing")
            /\ conn_weight' = AllNodes(6)
            /\ init_task' = "metrics"
            /\ UNCHANGED initializing
       ELSE /\ BgFailed
            /\ UNCHANGED <<graph, node_state, conn_weight>>

\* _compute_metrics has returned in the worker (core.py:182-209): the
\* health manager is initialized, the nodes activated, monitoring started.
BgMetricsDone ==
    /\ init_task = "metrics"
    /\ FabricFrame
    /\ UNCHANGED <<graph, executor_open, stop_pc, fab_ret, conn_weight>>
    /\ IF metrics = "none"
       THEN /\ BgFailed
            /\ UNCHANGED <<metrics, monitoring, tig_initialized, node_state>>
       ELSE /\ metrics' = "computed"
            /\ node_state' = AllNodes("active")
            /\ monitoring' = TRUE
            /\ tig_initialized' = TRUE
            /\ initializing' = FALSE
            /\ init_task' = "done"

\* A background task that swallows the cancellation and finishes the
\* initialization.
BgCancelledCompletes ==
    /\ init_task = "cancelling"
    /\ init_task' = "cancelled"
    /\ FabricFrame
    /\ node_state' = AllNodes("active")
    /\ monitoring' = TRUE
    /\ tig_initialized' = TRUE
    /\ initializing' = FALSE
    /\ UNCHANGED <<graph, metrics, executor_open, stop_pc, fab_ret, conn_weight>>

\* CancelledError is thrown into the task at its await; it is not an
\* Exception, so the handler at core.py:211 does not run.
BgCancelled ==
    /\ init_task = "cancelling"
    /\ init_task' = "cancelled"
    /\ FabricFrame
    /\ UNCHANGED <<initializing, graph, metrics, executor_open, monitoring, stop_pc, fab_ret, tigVars>>

\* stop() after the task, if any, has ended (core.py:496-506).
StopRest ==
    /\ monitoring' = FALSE
    /\ executor_open' = FALSE
    /\ node_state' = AllNodes("absent")
    /\ graph' = "empty"
    /\ metrics' = "none"
    /\ stop_pc' = "idle"
    /\ Returned("stop", FALSE)
    /\ conn_weight' = AllNodes(6)
    /\ UNCHANGED <<initializing, tig_initialized>>

\* A stop() that does not cancel the background task.
FabStopNoCancel ==
    /\ stop_pc = "idle"
    /\ FabricFrame
    /\ StopRest
    /\ UNCHANGED init_task

\* TIGFabric.stop up to `await self._init_task` (core.py:487-491), or
\* the whole call when no task is running.
FabStop ==
    /\ stop_pc = "idle"
    /\ FabricFrame
    /\ IF Running(init_task)
       THEN /\ init_task' = "cancelling"
            /\ stop_pc' = "await"
            /\ UNCHANGED <<initializing, graph, metrics, executor_open, monitoring, fab_ret, tigVars>>
       ELSE /\ StopRest
            /\ UNCHANGED init_task

\* The awaited task has ended; stop() continues (core.py:492-506).
FabStopResume ==
    /\ stop_pc = "await"
    /\ init_task = "cancelled"
    /\ FabricFrame
    /\ StopRest
    /\ UNCHANGED init_task

\* ------------------------------------------- HealthManager.send_to_node
\* The breaker lets the call through: it is closed, or it is open and the
\* recovery timeout has elapsed (half-open, this call is the trial).
NodeBreakerAdmits(b) ==
    b.state = "closed" \/ now - b.last_failure >= send_recovery_timeout

\* The breaker after a call whose delivery, if attempted, ended as `ok`.
NodeBreakerAfter(b, ok) ==
    IF ~NodeBreakerAdmits(b) THEN b
    ELSE IF ok THEN [b EXCEPT !.state = "closed", !.failures = 0]
    ELSE IF b.state = "open" THEN [b EXCEPT !.last_failure = now]
    ELSE IF b.failures + 1 >= send_failure_threshold
         THEN [state |-> "open", failures |-> b.failures + 1, last_failure |-> now]
         ELSE [b EXCEPT !.failures = @ + 1, !.last_failure = now]

\* HealthManager.send_to_node: delivery under a timeout, guarded by the
\* breaker; `ok` is whether delivery succeeds in time.
HealthSendToNode(ok) ==
    /\ node_breaker' = NodeBreakerAfter(node_breaker, ok)
    /\ send_ret' = [attempted |-> NodeBreakerAdmits(node_breaker),
                    trial |-> NodeBreakerAdmits(node_breaker) /\ node_breaker.state = "open",
                    ok |-> NodeBreakerAdmits(node_breaker) /\ ok]

\* A send_to_node that delivers without the health manager.
FabSendToNodeDirect(ok) ==
    /\ send_ret' = [attempted |-> TRUE, trial |-> FALSE, ok |-> ok]
    /\ UNCHANGED <<node_breaker, bcast_ret, now, coordVars, tigVars, lifeVars, modeVars>>

\* TIGFabric.send_to_node (core.py:437-443).
FabSendToNode(ok) ==
    /\ HealthSendToNode(ok)
    /\ UNCHANGED <<bcast_ret, now, coordVars, tigVars, lifeVars, modeVars>>

\* ------------------------------------------- TIGFabric.broadcast_global
\* The connections of node n in the generated topology: a ring, which is
\* connected and has no isolated node.
Neighbours(n) == {(n % NumNodes) + 1, ((n + NumNodes - 2) % NumNodes) + 1} \ {n}

\* self.nodes.values()
PresentNodes == {n \in Nodes : node_state[n] # "absent"}

\* What node.broadcast_to_neighbors may end with: the number of neighbours
\* the node reached, or Raised.
Raised == -1

NodeOutcomes(n) == {Raised} \cup (0..Cardinality(Neighbours(n)))

BroadcastOutcomes == {o \in [Nodes -> {Raised} \cup (0..NumNodes)] :
                         \A n \in Nodes : o[n] \in NodeOutcomes(n)}

RECURSIVE SumOver(_, _)
\* sum(r for r in results if isinstance(r, int)) over the nodes of S
SumOver(o, S) ==
    IF S = {} THEN 0
    ELSE LET n == CHOOSE m \in S : TRUE
         IN (IF o[n] = Raised THEN 0 ELSE o[n]) + SumOver(o, S \ {n})

\* A broadcast_global without the readiness check.
FabBroadcastGlobalUnguarded(o) ==
    /\ bcast_ret' = [called |-> TRUE, raised |-> FALSE, attempted |-> PresentNodes,
                     reached |-> SumOver(o, PresentNodes)]
    /\ UNCHANGED <<node_breaker, send_ret, now, coordVars, tigVars, lifeVars, modeVars>>

\* TIGFabric.broadcast_global (core.py:402-427); o[n] is how the
\* broadcast of node n ends.
FabBroadcastGlobal(o) ==
    /\ IF ~tig_initialized
       THEN bcast_ret' = [called |-> TRUE, raised |-> TRUE, attempted |-> {}, reached |-> 0]
       ELSE bcast_ret' = [called |-> TRUE, raised |-> FALSE, attempted |-> PresentNodes,
                          reached |-> SumOver(o, PresentNodes)]
    /\ UNCHANGED <<node_breaker, send_ret, now, coordVars, tigVars, lifeVars, modeVars>>

\* ------------------------------- enter_esgt_mode / exit_esgt_mode as calls
\* The states of the nodes the fabric holds after a bulk transition.
BulkState(st) == [n \in Nodes |-> IF node_state[n] = "absent" THEN "absent" ELSE st]

\* TIGFabric.enter_esgt_mode (core.py:508-520) called on the fabric.
FabEnterEsgtMode ==
    /\ esgt_calls.open < MaxModeDepth
    /\ esgt_calls' = [open |-> esgt_calls.open + 1,
                      peak |-> IF esgt_calls.open + 1 > esgt_calls.peak
                               THEN esgt_calls.open + 1 ELSE esgt_calls.peak]
    /\ node_state' = BulkState("esgt_mode")
    /\ conn_weight' = [n \in Nodes |-> EnterWeight(conn_weight[n])]
    /\ Returned("enter_esgt_mode", FALSE)
    /\ UNCHANGED <<now, coordVars, sendVars, tig_initialized>>
    /\ UNCHANGED <<initializing, init_task, graph, metrics, executor_open, monitoring, stop_pc>>

\* TIGFabric.exit_esgt_mode (core.py:522-529) called on the fabric.
FabExitEsgtMode ==
    /\ esgt_calls' = [esgt_calls EXCEPT !.open = IF @ > 0 THEN @ - 1 ELSE 0]
    /\ node_state' = BulkState("active")
    /\ conn_weight' = [n \in Nodes |-> ExitWeight(conn_weight[n])]
    /\ Returned("exit_esgt_mode", FALSE)
    /\ UNCHANGED <<now, coordVars, sendVars, tig_initialized>>
    /\ UNCHANGED <<initializing, init_task, graph, metrics, executor_open, monitoring, stop_pc>>

Next ==
    \/ \E c \in Callers, sal \in SalienceLevels : InitiateESGT(c, sal)
    \/ \E c \in Callers : SyncTick(c)
    \/ \E c \in Callers : SyncReturn(c)
    \/ \E c \in Callers, ok \in BOOLEAN : HookReturn(c, ok)
    \/ \E c \in Callers : BroadcastReturn(c)
    \/ \E c \in Callers : SustainStep(c)
    \/ \E c \in Callers : DissolveStep(c)
    \/ EnterDegradedMode
    \/ ExitDegradedMode
    \/ CoordStop
    \/ Tick

\* Two callers, every interleaving of their calls with the environment.
Init == InitWith(NumCallers, MaxEvents, MaxBlocked)

Spec == Init /\ [][Next]_vars

\* A fabric after construction, used through initialize, initialize_async,
\* stop and send_to_node; the coordinator is idle.
InitFabric ==
    /\ CoordInit(0, 0, 0)
    /\ TopoInit
    /\ tig_initialized = FALSE
    /\ node_state = AllNodes("absent")
    /\ conn_weight = AllNodes(6)
    /\ initializing = FALSE
    /\ init_task = "none"
    /\ graph = "empty"
    /\ metrics = "default"
    /\ executor_open = TRUE
    /\ monitoring = FALSE
    /\ stop_pc = "idle"
    /\ fab_ret = [op |-> "init", raised |-> FALSE]
    /\ SendInit
    /\ PrepInit
    /\ OrchIdle

NextAsync ==
    \/ FabInitializeAsync
    \/ BgStart
    \/ \E ok \in BOOLEAN : BgGenerateDone(ok)
    \/ BgMetricsDone
    \/ BgCancelled
    \/ FabStop
    \/ FabStopResume
    \/ \E ok \in BOOLEAN : FabSendToNode(ok)
    \/ \E o \in BroadcastOutcomes : FabBroadcastGlobal(o)
    \/ Tick

NextFabric == FabInitialize \/ NextAsync

SpecFabric == InitFabric /\ [][NextFabric]_vars

\* The same fabric brought up only through initialize_async.
SpecAsync == InitFabric /\ [][NextAsync]_vars

\* An initialized fabric whose ignition mode is entered and left, nested
\* up to MaxModeDepth deep, while messages are sent to its nodes.
NextMode ==
    \/ FabEnterEsgtMode
    \/ FabExitEsgtMode
    \/ \E ok \in BOOLEAN : FabSendToNode(ok)
    \/ Tick

SpecMode == InitWith(0, 0, 0) /\ [][NextMode]_vars

\* Two cliques of CliqueSize nodes, every node of both joined to one
\* bridge node (node CliqueSize).
TwoCliquesBridge ==
    LET left == 0..(CliqueSize - 1)
        right == (CliqueSize + 1)..(2 * CliqueSize)
        within(S) == {{a, b} : a, b \in S} \ {{a} : a \in S}
    IN [n |-> 2 * CliqueSize + 1,
        edges |-> within(left) \cup within(right)
                     \cup {{CliqueSize, a} : a \in left \cup right}]

\* Every graph of at most MaxTopoNodes nodes, and the two cliques.
Topologies ==
    UNION {{[n |-> k, edges |-> E] : E \in SUBSET Pairs(k)} : k \in 0..MaxTopoNodes}
        \cup {TwoCliquesBridge}

\* A fabric whose graph is any of the topologies, at the point of
\* initialize() where _compute_metrics is called.
InitTopology ==
    /\ CoordInit(0, 0, 0)
    /\ tig_initialized = FALSE
    /\ node_state = AllNodes("initializing")
    /\ conn_weight = AllNodes(6)
    /\ initializing = FALSE
    /\ init_task = "none"
    /\ graph = "generated"
    /\ metrics = "default"
    /\ executor_open = TRUE
    /\ monitoring = FALSE
    /\ stop_pc = "idle"
    /\ fab_ret = [op |-> "init", raised |-> FALSE]
    /\ SendInit
    /\ PrepInit
    /\ OrchIdle
    /\ topology \in Topologies
    /\ fabric_metrics = DefaultMetrics

NextTopology == ComputeMetrics \/ Tick

SpecTopology == InitTopology /\ [][NextTopology]_vars

\* One caller whose calls run alone, with a target duration of
\* SoloSustainTicks sustain iterations.
InitSolo ==
    /\ CoordInitLasting(1, MaxEvents, MaxBlocked, SoloSustainTicks)
    /\ TopoInit
    /\ tig_initialized = TRUE
    /\ node_state = [n \in Nodes |-> "active"]
    /\ conn_weight = [n \in Nodes |-> 6]
    /\ FabricInitialized
    /\ SendInit
    /\ PrepInit
    /\ OrchIdle

SpecSolo == InitSolo /\ [][Next]_vars

\* One caller whose calls run alone and are enough to fill the recent-event
\* cap of the temporal gating.
InitGating == InitWith(1, max_recent_events + GatingExtra, 0)

NextGating ==
    \/ \E c \in Callers, sal \in SalienceLevels : InitiateESGT(c, sal)
    \/ \E c \in Callers : SyncTick(c)
    \/ \E c \in Callers : SyncReturn(c)
    \/ \E c \in Callers, ok \in BOOLEAN : HookReturn(c, ok)
    \/ \E c \in Callers : BroadcastReturn(c)
    \/ \E c \in Callers : SustainStep(c)
    \/ \E c \in Callers : DissolveStep(c)
    \/ Tick

SpecGating == InitGating /\ [][NextGating]_vars

\* One caller making one call on a fabric whose nodes are Active or
\* Degraded.
InitDegraded ==
    /\ CoordInit(1, 1, 0)
    /\ TopoInit
    /\ tig_initialized = TRUE
    /\ node_state \in [Nodes -> {"active", "degraded"}]
    /\ conn_weight = [n \in Nodes |-> 6]
    /\ FabricInitialized
    /\ SendInit
    /\ PrepInit
    /\ OrchIdle

SpecDegraded == InitDegraded /\ [][Next]_vars

\* One caller issuing requests faster than the limiter admits them.
InitBurst == InitWith(1, 1, MAX_FREQUENCY_HZ + BurstExtra)

SpecBurst == InitBurst /\ [][Next]_vars

\* The clock advances past the limiter's window.
TickRate ==
    /\ now < MaxRateTime
    /\ now' = now + 1
    /\ UNCHANGED <<quota, callVars, statVars, gateVars, kuramoto, tigVars, fabVars, healthVars, topoVars, prepVars, orchVars>>

\* One caller whose requests return at once or suspend, over a time span
\* longer than the limiter's window.
InitRate == InitWith(1, MAX_FREQUENCY_HZ + BurstExtra, MaxRateBlocked)

NextRate ==
    \/ \E c \in Callers, sal \in SalienceLevels : InitiateESGT(c, sal)
    \/ TickRate

SpecRate == InitRate /\ [][NextRate]_vars

\* NumBurstCallers calls launched together (asyncio.gather): every call
\* runs to its first suspension before any of them is resumed.
InitLaunch == InitWith(NumBurstCallers, NumBurstCallers, NumBurstCallers)

NextLaunch == \E c \in Callers, sal \in SalienceLevels : InitiateESGT(c, sal)

SpecLaunch == InitLaunch /\ [][NextLaunch]_vars

\* ------------------------------------- _recruit_nodes / _build_topology
\* The states a node of the fabric can be in.
NodeStates == {"initializing", "active", "esgt_mode", "degraded"}

\* A _build_topology that keeps every neighbour, participant or not.
BuildTopologyAnyRemote(node_ids) ==
    [n \in {m \in node_ids : node_state[m] # "absent"} |->
        {w \in Neighbours(n) : conn_active[<<n, w>>]}]

\* _build_topology (coordinator.py:381-396): for each of node_ids the
\* fabric holds, the remote ends of its active connections that are in
\* node_ids.
BuildTopology(node_ids) ==
    [n \in {m \in node_ids : node_state[m] # "absent"} |->
        {w \in Neighbours(n) : conn_active[<<n, w>>] /\ w \in node_ids}]

\* The Prepare phase and the start of Synchronize of initiate_esgt
\* (coordinator.py:202, 216): recruit, then build the topology handed to
\* the oscillator network.
PrepareTopology ==
    /\ ~prepared.built
    /\ prepared' = [built |-> TRUE, participating |-> RecruitNodes,
                    topology |-> BuildTopology(RecruitNodes)]
    /\ UNCHANGED <<now, callVars, statVars, gateVars, kuramoto, quota, healthVars, tigVars, fabVars,
                   topoVars, conn_active, orchVars>>

\* An initialized fabric whose nodes are in any state and whose
\* connections are active or not, on which one ignition prepares.
InitPrepare ==
    /\ CoordInit(0, 0, 0)
    /\ TopoInit
    /\ tig_initialized = TRUE
    /\ node_state \in [Nodes -> NodeStates]
    /\ conn_weight = [n \in Nodes |-> 6]
    /\ FabricInitialized
    /\ SendInit
    /\ conn_active \in [Nodes \X Nodes -> BOOLEAN]
    /\ \A c \in Nodes \X Nodes : (c[2] \notin Neighbours(c[1])) => conn_active[c]
    /\ prepared = NotPrepared
    /\ OrchIdle

NextPrepare == PrepareTopology \/ Tick

SpecPrepare == InitPrepare /\ [][NextPrepare]_vars

\* ------------------------------------------------------- Orchestrator
TaskIds == 1..MaxTasks

\* The ids with a result in the map r.
HasResult(r) == DOMAIN r

\* A dependency test that is satisfied by any one dependency.
DepsSatisfiedAny(m, t) ==
    m.dependencies[t] = {} \/ \E dep_id \in m.dependencies[t] : dep_id \in HasResult(m.results)

\* deps_satisfied (orchestrator.py:260-262)
DepsSatisfied(m, t) == \A dep_id \in m.dependencies[t] : dep_id \in HasResult(m.results)

\* ready_tasks (orchestrator.py:258-264)
ReadyTasks(m) == {t \in m.pending_tasks : DepsSatisfied(m, t)}

\* _synthesize_results (orchestrator.py:286-338): COMPLETED when every
\* result in the map is COMPLETED.
SynthesizeResults(m) ==
    [m EXCEPT !.pc = "done",
              !.status = IF \A t \in DOMAIN m.results : m.results[t] = "COMPLETED"
                         THEN "COMPLETED" ELSE "FAILED"]

\* A while loop that does not break when no task is ready.
WhileLoopNoBreak(m) ==
    IF m.pending_tasks = {}
    THEN SynthesizeResults(m)
    ELSE [m EXCEPT !.pc = "gather", !.ready_tasks = ReadyTasks(m),
                   !.started = {}, !.task_results = <<>>]

\* The while loop of _execute_with_dependencies from its head to the next
\* suspension (orchestrator.py:256-276): it ends when nothing is pending
\* or nothing is ready, and _execute_complex_task synthesizes and returns
\* (232-236); otherwise the ready tasks are handed to asyncio.gather.
WhileLoop(m) ==
    IF m.pending_tasks = {} \/ ReadyTasks(m) = {}
    THEN SynthesizeResults(m)
    ELSE [m EXCEPT !.pc = "gather", !.ready_tasks = ReadyTasks(m),
                   !.started = {}, !.task_results = <<>>]

OrchFrame ==
    UNCHANGED <<now, callVars, statVars, gateVars, kuramoto, quota, healthVars, tigVars, fabVars,
                topoVars, prepVars>>

\* decompose has returned: _execute_with_dependencies is entered
\* (orchestrator.py:229, 253-254).
ExecuteWithDependencies ==
    /\ mission.pc = "decomposed"
    /\ mission' = WhileLoop([mission EXCEPT !.results = <<>>,
                                            !.pending_tasks = DOMAIN mission.dependencies])
    /\ OrchFrame

\* execute_mission of the ready task t starts (orchestrator.py:272-276).
ExecuteMissionStart(t) ==
    /\ mission.pc = "gather"
    /\ t \in mission.ready_tasks \ mission.started
    /\ mission' = [mission EXCEPT !.started = @ \cup {t}, !.executed = @ \cup {t}]
    /\ OrchFrame

\* execute_mission of task t returns a result of status st
\* (orchestrator.py:96-132: it returns a TaskResult on every path).
ExecuteMissionReturn(t, st) ==
    /\ mission.pc = "gather"
    /\ t \in mission.started
    /\ t \notin DOMAIN mission.task_results
    /\ mission' = [mission EXCEPT !.task_results =
                       [u \in DOMAIN @ \cup {t} |-> IF u = t THEN st ELSE @[u]]]
    /\ OrchFrame

\* asyncio.gather returns: the results are stored, the tasks leave
\* pending_tasks (orchestrator.py:276-282) and the loop goes on.
GatherReturn ==
    /\ mission.pc = "gather"
    /\ DOMAIN mission.task_results = mission.ready_tasks
    /\ mission' = WhileLoop(
           [mission EXCEPT
               !.results = [u \in DOMAIN @ \cup mission.ready_tasks |->
                               IF u \in mission.ready_tasks
                               THEN mission.task_results[u] ELSE @[u]],
               !.pending_tasks = @ \ mission.ready_tasks])
    /\ OrchFrame

\* A complex mission whose decomposition returned any set of subtasks
\* with any dependencies among the task ids.
InitOrch ==
    /\ CoordInit(0, 0, 0)
    /\ TopoInit
    /\ tig_initialized = TRUE
    /\ node_state = [n \in Nodes |-> "active"]
    /\ conn_weight = [n \in Nodes |-> 6]
    /\ FabricInitialized
    /\ SendInit
    /\ PrepInit
    /\ \E S \in SUBSET TaskIds :
          \E d \in [S -> SUBSET TaskIds] :
             mission = [pc |-> "decomposed", dependencies |-> d, pending_tasks |-> {},
                        ready_tasks |-> {}, started |-> {}, executed |-> {},
                        task_results |-> <<>>, results |-> <<>>, status |-> "none"]

NextOrch ==
    \/ ExecuteWithDependencies
    \/ \E t \in TaskIds : ExecuteMissionStart(t)
    \/ \E t \in TaskIds, st \in {"COMPLETED", "FAILED"} : ExecuteMissionReturn(t, st)
    \/ GatherReturn

SpecOrch == InitOrch /\ [][NextOrch]_vars

\* The same where every started execute_mission returns and the event
\* loop resumes whoever can run.
SpecOrchLive == SpecOrch /\ WF_vars(NextOrch)

\* ---------------------------------------------------------------------
\* Properties
\* ---------------------------------------------------------------------
\* get_health_metrics()["active_events"]
HealthActiveEvents == Cardinality(active_events)

\* The call of caller c holds an event between Prepare and its return.
InFlight(c) == pc[c] \in {"sync", "hook", "broadcast", "sustain", "dissolve"}

InFlightEvents == {ev[c] : c \in {d \in Callers : InFlight(d)}}

CapRejected(c) ==
    pc[c] = "idle" /\ ret[c].kind = "blocked" /\ ret[c].event.reason = "max_concurrent_events"

\* C1: the number of events in a non-terminal phase never exceeds
\* max_concurrent, and when NumBurstCallers calls are launched together
\* all but MAX_CONCURRENT_EVENTS of them are rejected with
\* "max_concurrent_events".
C1_ConcurrencyCap ==
    /\ Cardinality(InFlightEvents) <= max_concurrent
    /\ (\A c \in Callers : InFlight(c) \/ CapRejected(c))
          => Cardinality({c \in Callers : CapRejected(c)})
                >= NumBurstCallers - MAX_CONCURRENT_EVENTS

\* C2: active_events holds exactly the events between Prepare and
\* finalization, so the in-flight count of get_health_metrics is their
\* number.
C2_ActiveMembership ==
    /\ active_events = InFlightEvents
    /\ HealthActiveEvents = Cardinality(InFlightEvents)

\* The gates of C3, each stated on the state the call finds.
WindowFull ==
    Cardinality({i \in DOMAIN frequency_limiter : now - frequency_limiter[i] < TicksPerSecond})
        >= MAX_FREQUENCY_HZ

CapReached == Cardinality(active_events) >= max_concurrent

BreakerHolds ==
    /\ ignition_breaker.state = "open"
    /\ now - ignition_breaker.last_failure < BREAKER_RECOVERY_TIMEOUT_S * TicksPerSecond

BelowDegradedBar(sal) == degraded_mode /\ sal < DEGRADED_SALIENCE_THRESHOLD

EarliestFailingGate(sal) ==
    CASE WindowFull -> "frequency_limit_exceeded"
      [] ~WindowFull /\ CapReached -> "max_concurrent_events"
      [] ~WindowFull /\ ~CapReached /\ BreakerHolds -> "circuit_breaker_open"
      [] ~WindowFull /\ ~CapReached /\ ~BreakerHolds /\ BelowDegradedBar(sal)
            -> "degraded_mode_low_salience"
      [] OTHER -> ""

\* C3: a call is answered with the reason of the earliest failing gate in
\* the order frequency, concurrency, breaker, degraded-mode salience; an
\* event is constructed and the attempt counted only when all four pass.
C3_GateOrder ==
    [][\A c \in Callers, sal \in SalienceLevels :
          InitiateESGT(c, sal) =>
              LET gate == EarliestFailingGate(sal)
              IN IF gate # ""
                 THEN /\ ret'[c].kind = "blocked"
                      /\ ret'[c].event.reason = gate
                      /\ Len(events') = Len(events)
                      /\ total_events' = total_events
                 ELSE /\ Len(events') = Len(events) + 1
                      /\ total_events' = total_events + 1]_vars

\* C3 witness: a request below the degraded-mode bar was rejected by the
\* frequency gate while the coordinator was degraded.
C3_Witness ==
    \E c \in Callers :
        /\ ret[c].kind = "blocked"
        /\ ret[c].event.reason = "frequency_limit_exceeded"
        /\ ret[c].event.t0 = now
        /\ degraded_mode
        /\ rejected[c] < DEGRADED_SALIENCE_THRESHOLD

GateReasons ==
    {"frequency_limit_exceeded", "max_concurrent_events", "circuit_breaker_open",
     "degraded_mode_low_salience"}

\* C4: a call rejected by a gate returns a synthetic failed event with
\* the gate's reason and changes no counter, no history, no timestamp of
\* the last ignition, no node state and nothing of the oscillator network.
C4_RejectionFrame ==
    [][\A c \in Callers, sal \in SalienceLevels :
          (InitiateESGT(c, sal) /\ EarliestFailingGate(sal) # "") =>
              /\ ret'[c].kind = "blocked"
              /\ ret'[c].event.success = FALSE
              /\ ret'[c].event.phase = "failed"
              /\ ret'[c].event.reason \in GateReasons
              /\ UNCHANGED <<total_events, successful_events, event_history, events,
                             last_esgt_time, node_state, conn_weight, kuramoto>>]_vars

\* C4 witness: the frequency gate has rejected a call after an attempt
\* had been counted, recorded and had left the fabric in ESGT mode.
C4_Witness ==
    \E c \in Callers :
        /\ ret[c].kind = "blocked"
        /\ ret[c].event.reason = "frequency_limit_exceeded"
        /\ total_events > 0
        /\ event_history # <<>>
        /\ \E n \in Nodes : node_state[n] = "esgt_mode"

\* C5: initiate_esgt never lets an exception reach its caller.
C5_NeverRaises == \A c \in Callers : ret[c].kind # "raised"

\* C6: when no ignition is in flight no node is in ESGT mode.
C6_NoIgnitionModeWhenIdle ==
    (\A c \in Callers : ~InFlight(c)) => (\A n \in Nodes : node_state[n] # "esgt_mode")

\* C7: between an event's start of Synchronize and its end of Dissolve
\* the oscillator network changes only by that event's own steps.
C7_OscillatorIsolation ==
    [][\A c \in Callers :
          (InFlight(c) /\ pc'[c] = pc[c] /\ step'[c] = step[c]) => kuramoto' = kuramoto]_vars

SuccessPhases == <<"prepare", "synchronize", "broadcast", "sustain", "dissolve", "complete">>

PhaseRank(p) ==
    CASE p = "idle" -> 0 [] p = "prepare" -> 1 [] p = "synchronize" -> 2
      [] p = "broadcast" -> 3 [] p = "sustain" -> 4 [] p = "dissolve" -> 5
      [] p = "complete" -> 6 [] p = "failed" -> 7

Terminal(p) == p \in {"complete", "failed"}

\* The recorded transitions of an event go forward and stop at the first
\* terminal phase.
ForwardPhases(e) ==
    \A k \in 1..(Len(e.phases) - 1) :
        /\ ~Terminal(e.phases[k])
        /\ PhaseRank(e.phases[k]) < PhaseRank(e.phases[k + 1])

Occurrences(i) == Cardinality({k \in DOMAIN event_history : event_history[k] = i})

ConsecutiveFailures ==
    LET n == Len(event_history)
    IN /\ n >= BREAKER_FAILURE_THRESHOLD
       /\ \A k \in (n - BREAKER_FAILURE_THRESHOLD + 1)..n : ~events[event_history[k]].success

\* C10: after BREAKER_FAILURE_THRESHOLD consecutive failed ignitions the
\* ignition breaker is open until the recovery timeout has elapsed.
C10_BreakerOpens ==
    (ConsecutiveFailures /\ now - events[event_history[Len(event_history)]].t0
                               < BREAKER_RECOVERY_TIMEOUT_S * TicksPerSecond)
        => ignition_breaker.state = "open"

NodeBreakerWaiting(b) ==
    b.state = "open" /\ now - b.last_failure < send_recovery_timeout

NodeBreakerTrial(b) ==
    b.state = "open" /\ now - b.last_failure >= send_recovery_timeout

\* C11: the breaker of send_to_node counts consecutive failures and opens
\* only when they reach the threshold; while it is open and the recovery timeout
\* has not elapsed a call fails with no delivery attempted and changes
\* nothing; once the timeout has elapsed the next call is the trial, is
\* delivered, and closes the breaker on success or reopens it and restarts
\* the timeout on failure.
C11_SendBreaker ==
    [][\A ok \in BOOLEAN :
          FabSendToNode(ok) =>
              /\ (node_breaker.state = "closed" /\ node_breaker'.state = "open")
                    => /\ ~ok
                       /\ node_breaker.failures + 1 = send_failure_threshold
                       /\ node_breaker'.last_failure = now
              /\ (node_breaker.state = "closed" /\ ~ok)
                    => /\ node_breaker'.failures = node_breaker.failures + 1
                       /\ node_breaker.failures + 1 < send_failure_threshold
                             => node_breaker'.state = "closed"
              /\ (node_breaker.state = "closed" /\ ok)
                    => node_breaker'.state = "closed" /\ node_breaker'.failures = 0
              /\ NodeBreakerWaiting(node_breaker)
                    => /\ ~send_ret'.attempted
                       /\ ~send_ret'.ok
                       /\ node_breaker' = node_breaker
              /\ NodeBreakerTrial(node_breaker)
                    => /\ send_ret'.attempted
                       /\ ok => node_breaker'.state = "closed"
                       /\ ~ok => /\ node_breaker'.state = "open"
                                 /\ node_breaker'.last_failure = now
                                 /\ NodeBreakerWaiting(node_breaker)']_vars

\* C11 witness: the breaker opened and after the recovery timeout a
\* failed trial has reopened it.
C11_Witness ==
    /\ node_breaker.state = "open"
    /\ node_breaker.last_failure = now
    /\ node_breaker.failures = send_failure_threshold
    /\ send_ret.trial
    /\ ~send_ret.ok

\* Events constructed in the one-second window that ends at w.  With the
\* coordinator not degraded, every call that passes the frequency gate
\* constructs an event.
AdmittedInWindow(w) ==
    Cardinality({i \in DOMAIN events :
                    events[i].t0 <= w /\ w - events[i].t0 < TicksPerSecond})

\* C12: no one-second window holds more than MAX_FREQUENCY_HZ admitted
\* calls; a call is rejected with "frequency_limit_exceeded" exactly when
\* the calls admitted in the trailing window, rejected ones not counted,
\* have reached MAX_FREQUENCY_HZ.
C12_FrequencyWindow ==
    /\ [](\A w \in 1..now : AdmittedInWindow(w) <= MAX_FREQUENCY_HZ)
    /\ [][\A c \in Callers, sal \in SalienceLevels :
            InitiateESGT(c, sal) =>
                IF AdmittedInWindow(now) >= MAX_FREQUENCY_HZ
                THEN /\ ret'[c].kind = "blocked"
                     /\ ret'[c].event.reason = "frequency_limit_exceeded"
                     /\ Len(events') = Len(events)
                ELSE /\ Len(events') = Len(events) + 1
                     /\ events'[Len(events')].t0 = now]_vars

\* C12 witness: the window was exhausted, calls were rejected, and after
\* the window has slid a call is admitted again.
C12_Witness ==
    /\ Len(events) > MAX_FREQUENCY_HZ
    /\ events[Len(events)].t0 = now
    /\ AdmittedInWindow(now) < MAX_FREQUENCY_HZ
    /\ quota.blocked = 0
    /\ \E c \in Callers : rejected[c] > 0

\* The trigger condition an admitted request fails, stated on the state
\* the call finds; "" when it fails none or the fabric reference is gone.
FailingTrigger(sal) ==
    CASE sal < min_salience -> "Salience too low"
      [] sal >= min_salience /\ tig_ref
           /\ Cardinality({n \in Nodes : node_state[n] \in {"active", "esgt_mode"}})
                 < min_available_nodes
           -> "Insufficient resources"
      [] sal >= min_salience /\ tig_ref
           /\ Cardinality({n \in Nodes : node_state[n] \in {"active", "esgt_mode"}})
                 >= min_available_nodes
           /\ last_esgt_time > NoTime /\ now - last_esgt_time < refractory_period
           -> "Refractory period violation"
      [] OTHER -> ""

\* C13: an admitted attempt that fails a trigger condition returns a
\* Failed event with that condition's reason that never entered Prepare,
\* adds one to total_events and one entry to the history, and leaves
\* successful_events, last_esgt_time, the breaker and the node states
\* unchanged.
C13_TriggerFailureFrame ==
    [][\A c \in Callers, sal \in SalienceLevels :
          (/\ pc[c] = "idle"
           /\ Len(events') = Len(events) + 1
           /\ InitiateESGT(c, sal)
           /\ FailingTrigger(sal) # "")
              => /\ ret'[c].kind = "event"
                 /\ ret'[c].event.reason = FailingTrigger(sal)
                 /\ ret'[c].event.phase = "failed"
                 /\ ret'[c].event.phases = <<"failed">>
                 /\ ~ret'[c].event.success
                 /\ events'[Len(events')] = ret'[c].event
                 /\ total_events' = total_events + 1
                 /\ event_history' = Append(event_history, Len(events'))
                 /\ UNCHANGED <<successful_events, last_esgt_time, ignition_breaker,
                                node_state, conn_weight>>]_vars

\* C13 witness: a request of sufficient salience was turned down by the
\* refractory period after a completed ignition, and recorded.
C13_Witness ==
    \E c \in Callers :
        /\ ret[c].kind = "event"
        /\ ret[c].event.reason = "Refractory period violation"
        /\ successful_events > 0
        /\ event_history # <<>>
        /\ event_history[Len(event_history)] = ret[c].id

ProtocolFailureReasons == {"Insufficient nodes recruited", "Sync failed"}

\* C14: an ignition that fails in Prepare for insufficient nodes or after
\* Synchronize for coherence below the conscious level is returned as a
\* Failed event that is in the event history.
C14_ProtocolFailureRecorded ==
    \A c \in Callers :
        (ret[c].kind = "event" /\ tig_ref /\ ret[c].event.reason \in ProtocolFailureReasons)
            => /\ ~ret[c].event.success
               /\ ret[c].event.phase = "failed"
               /\ \E k \in DOMAIN event_history : event_history[k] = ret[c].id

\* C15: every event with success = true has an achieved coherence in
\* [0, 1] that is at least the conscious-level threshold.
C15_SuccessCoherence ==
    \A i \in DOMAIN events :
        events[i].success
            => /\ events[i].achieved >= 0
               /\ events[i].achieved <= 100
               /\ events[i].achieved >= CONSCIOUS_LEVEL

\* C16: stop() returns without raising from every lifecycle state; when
\* it has returned no background initialization task is pending and the
\* health-monitoring loop is not running; a stop() right after a stop()
\* changes nothing.
C16_StopIdempotent ==
    /\ [](fab_ret.op = "stop"
            => /\ ~fab_ret.raised
               /\ init_task \notin {"created", "generate", "metrics", "cancelling"}
               /\ ~monitoring
               /\ stop_pc = "idle")
    /\ [][(fab_ret.op = "stop" /\ FabStop) => UNCHANGED <<lifeVars, tigVars>>]_vars

\* C16 witness: stop() has returned on a fabric whose background
\* initialization was in progress when it was called.
C16_Witness ==
    /\ fab_ret.op = "stop"
    /\ init_task = "cancelled"
    /\ initializing

\* C17: a stop() that finds the background initialization in progress
\* cancels it and waits for it; the cancelled task ends without marking
\* the fabric ready, activating a node or starting health monitoring, and
\* once stop() has returned no node is active, the monitoring loop is not
\* running and nothing marks the fabric ready later.
C17_StopCancelsInit ==
    /\ []((init_task = "cancelled" /\ stop_pc = "idle")
            => /\ ~monitoring
               /\ \A n \in Nodes : node_state[n] # "active")
    /\ [][/\ (FabStop /\ Running(init_task))
               => (init_task' = "cancelling" /\ stop_pc' = "await")
          /\ (stop_pc = "await" /\ stop_pc' = "idle") => init_task = "cancelled"
          /\ (init_task = "cancelling" /\ init_task' # "cancelling")
               => /\ init_task' = "cancelled"
                  /\ UNCHANGED <<tig_initialized, node_state, monitoring>>
          /\ (init_task = "cancelled" /\ stop_pc = "idle")
               => tig_initialized' = tig_initialized]_vars

\* C17 witness: after stop() cancelled the background task a later
\* initialize() was attempted and failed.
C17_Witness ==
    /\ init_task = "cancelled"
    /\ stop_pc = "idle"
    /\ fab_ret = [op |-> "initialize", raised |-> TRUE]
    /\ ~tig_initialized

\* C18: when initialize() completes, the fabric holds its NumNodes nodes,
\* every node is Active, is_ready() is true and health monitoring has been
\* started.
C18_InitializeActivates ==
    [][(FabInitialize /\ ~tig_initialized /\ ~fab_ret'.raised)
          => /\ Cardinality({n \in Nodes : node_state'[n] # "absent"}) = NumNodes
             /\ \A n \in Nodes : node_state'[n] = "active"
             /\ tig_initialized'
             /\ monitoring'
             /\ graph' = "generated"]_vars

\* C18 witness: initialize() has completed on a fabric that was not ready.
C18_Witness ==
    /\ fab_ret = [op |-> "initialize", raised |-> FALSE]
    /\ tig_initialized
    /\ monitoring
    /\ \A n \in Nodes : node_state[n] = "active"

\* C19: initialize() or initialize_async() called on a fabric that is already
\* initialized raises, and leaves the nodes, their states, the topology, the
\* metrics and the health monitoring as they were.
C19_AlreadyInitializedRaises ==
    [][((FabInitialize \/ FabInitializeAsync) /\ tig_initialized)
          => /\ fab_ret'.raised
             /\ UNCHANGED <<node_state, conn_weight, graph, metrics, monitoring>>
             /\ UNCHANGED <<tig_initialized, initializing, init_task>>]_vars

\* C19 witness: initialize_async() has raised on a ready fabric whose nodes
\* are active.
C19_Witness ==
    /\ fab_ret = [op |-> "initialize_async", raised |-> TRUE]
    /\ tig_initialized
    /\ \A n \in Nodes : node_state[n] = "active"

\* The background task has been created and has not ended.
InitInProgress == Running(init_task) \/ init_task = "cancelling"

\* C20: initialize_async returns with the task created and no topology
\* generated; while the task has not ended is_initializing() is true and
\* is_ready() is false; a task that ends successfully leaves is_ready() true
\* and is_initializing() false, one that ends with an error leaves both
\* false; initialize_async during a run in progress starts no second task.
C20_AsyncLifecycle ==
    /\ [](InitInProgress => (initializing /\ ~tig_initialized))
    /\ [][/\ (FabInitializeAsync /\ ~tig_initialized /\ ~initializing)
               => (init_task' = "created" /\ UNCHANGED <<graph, node_state>>)
          /\ (FabInitializeAsync /\ initializing)
               => UNCHANGED <<init_task, initializing>>
          /\ (init_task # "done" /\ init_task' = "done")
               => (tig_initialized' /\ ~initializing')
          /\ (init_task # "failed" /\ init_task' = "failed")
               => (~tig_initialized' /\ ~initializing')]_vars

\* A step in which a broadcast_global call returns or raises.
BroadcastGlobalStep == bcast_ret' # bcast_ret

\* C21: broadcast_global on a fabric that is not initialized raises and
\* starts the broadcast of no node.
C21_BroadcastNotInitialized ==
    [][(BroadcastGlobalStep /\ ~tig_initialized)
          => /\ bcast_ret'.raised
             /\ bcast_ret'.attempted = {}
             /\ bcast_ret'.reached = 0]_vars

\* C21 witness: the call has raised on a fabric that holds nodes and is
\* not ready.
C21_Witness ==
    /\ bcast_ret.called /\ bcast_ret.raised
    /\ ~tig_initialized
    /\ PresentNodes = Nodes

\* C22: broadcast_global on an initialized fabric starts the broadcast of
\* every node, does not raise when broadcasts of nodes fail, and returns a
\* number of nodes reached between 0 and the node count.
C22_BroadcastIsolatesFailures ==
    [][(BroadcastGlobalStep /\ tig_initialized)
          => /\ ~bcast_ret'.raised
             /\ bcast_ret'.attempted = PresentNodes
             /\ bcast_ret'.reached \in 0..Cardinality(PresentNodes)]_vars

\* C23: entering ignition mode multiplies every connection weight by 1.5,
\* capped at 2.0 (12 sixths); when every enter has been matched by an exit
\* every weight is back at its value before the first enter (1.0, 6 sixths)
\* and the exit has left every node Active.
C23_WeightsRestored ==
    /\ [](esgt_calls.open = 0 => \A n \in Nodes : conn_weight[n] = 6)
    /\ [](\A n \in Nodes : conn_weight[n] \in 6..12)
    /\ [][/\ FabEnterEsgtMode
               => \A n \in Nodes :
                     /\ conn_weight'[n] >= conn_weight[n]
                     /\ conn_weight[n] = 6 => conn_weight'[n] = 9
          /\ (FabExitEsgtMode /\ esgt_calls.open = 1)
               => \A n \in Nodes : conn_weight'[n] = 6 /\ node_state'[n] = "active"]_vars

\* C23 witness: the last of the nested enters, which met the cap, has been
\* matched by its exit.
C23_Witness ==
    /\ esgt_calls = [open |-> 0, peak |-> MaxModeDepth]
    /\ fab_ret = [op |-> "exit_esgt_mode", raised |-> FALSE]
    /\ \A n \in Nodes : conn_weight[n] = 6 /\ node_state[n] = "active"

\* The frequency, concurrency and breaker gates let the call through.
EarlierGatesPass == ~WindowFull /\ ~CapReached /\ ~BreakerHolds

\* C24: entering degraded mode sets the concurrency cap to 1 and makes
\* admission require a total salience of at least 0.85, a lower one being
\* rejected with "degraded_mode_low_salience"; exiting restores the cap of
\* MAX_CONCURRENT_EVENTS and the normal bar; max_concurrent is 1 exactly
\* when degraded_mode is set.
C24_DegradedMode ==
    /\ [](max_concurrent = IF degraded_mode THEN 1 ELSE MAX_CONCURRENT_EVENTS)
    /\ [][/\ EnterDegradedMode => (degraded_mode' /\ max_concurrent' = 1)
          /\ ExitDegradedMode => (~degraded_mode' /\ max_concurrent' = MAX_CONCURRENT_EVENTS)
          /\ \A c \in Callers, sal \in SalienceLevels :
                (InitiateESGT(c, sal) /\ EarlierGatesPass)
                   => IF degraded_mode /\ sal < DEGRADED_SALIENCE_THRESHOLD
                      THEN /\ ret'[c].kind = "blocked"
                           /\ ret'[c].event.reason = "degraded_mode_low_salience"
                           /\ Len(events') = Len(events)
                      ELSE /\ Len(events') = Len(events) + 1
                           /\ total_events' = total_events + 1]_vars

\* C24 witness: in degraded mode a request below the bar has been rejected.
C24_Witness ==
    /\ degraded_mode
    /\ max_concurrent = 1
    /\ \E c \in Callers :
          /\ ret[c].kind = "blocked"
          /\ ret[c].event.reason = "degraded_mode_low_salience"
          /\ rejected[c] >= min_salience
          /\ rejected[c] < DEGRADED_SALIENCE_THRESHOLD

\* C25: the event history is bounded: it never holds more than the
\* HistoryN most recent finalized events.
C25_HistoryBounded == Len(event_history) <= HistoryN

\* The achieved coherence of the most recent (at most 10) successful
\* ignitions, oldest first.
RecentIgnitionCoherence ==
    LET won == SelectSeq(events, LAMBDA e : e.finalized /\ e.success)
        n == Len(won)
    IN [i \in 1..(IF n > 10 THEN 10 ELSE n) |-> won[i + (n - (IF n > 10 THEN 10 ELSE n))].achieved]

\* C26: get_health_metrics reports the counters of the coordinator, counts
\* a successful ignition in frequency_hz for the second that follows it,
\* and reports as average_coherence the mean achieved coherence of the
\* most recent ignitions.
C26_HealthMetrics ==
    /\ GetHealthMetrics.total_events = total_events
    /\ GetHealthMetrics.successful_events = successful_events
    /\ (last_esgt_time # NoTime /\ now - last_esgt_time < TicksPerSecond)
          => GetHealthMetrics.frequency_hz >= 1
    /\ RecentIgnitionCoherence # <<>>
          => GetHealthMetrics.average_coherence
                = SeqSum(RecentIgnitionCoherence) \div Len(RecentIgnitionCoherence)

\* v is a cut vertex of g: two other nodes are joined in g and only
\* through v.
IsCutVertex(g, v) ==
    \E u, w \in GNodes(g) \ {v} :
        /\ u # w
        /\ w \in ReachFrom(g, {}, {u})
        /\ w \notin ReachFrom(g, {v}, {u})

\* C27: has_feed_forward_bottlenecks is set exactly when the graph has an
\* articulation point and bottleneck_locations names exactly the
\* articulation points; two cliques joined through a bridge node report
\* the flag and the bridge node.
C27_Bottlenecks ==
    (fabric_metrics.computed /\ topology.n > 0)
       => /\ fabric_metrics.has_feed_forward_bottlenecks
                <=> (\E v \in GNodes(topology) : IsCutVertex(topology, v))
          /\ \A v \in GNodes(topology) :
                NodeId(v) \in fabric_metrics.bottleneck_locations <=> IsCutVertex(topology, v)
          /\ Cardinality(fabric_metrics.bottleneck_locations)
                = Cardinality({v \in GNodes(topology) : IsCutVertex(topology, v)})
          /\ topology = TwoCliquesBridge
                => /\ fabric_metrics.has_feed_forward_bottlenecks
                   /\ NodeId(CliqueSize) \in fabric_metrics.bottleneck_locations

\* C27 witness: the metrics of the two cliques with their bridge have been
\* computed.
C27_Witness ==
    /\ topology = TwoCliquesBridge
    /\ fabric_metrics.computed
    /\ fabric_metrics.bottleneck_locations = {NodeId(CliqueSize)}

\* g is in more than one piece and none of its nodes is isolated.
DisconnectedNoIsolated(g) ==
    /\ Cardinality(Components(g, {})) > 1
    /\ \A v \in GNodes(g) : Degree(g, v) > 0

\* C28: on a non-empty topology algebraic_connectivity is the minimum node
\* degree divided by the number of nodes; it is not the true algebraic
\* connectivity, which is 0 on a disconnected graph.
C28_ConnectivityProxy ==
    (fabric_metrics.computed /\ topology.n > 0)
       => LET ac == fabric_metrics.algebraic_connectivity
          IN /\ ac.den = topology.n
             /\ \E v \in GNodes(topology) : Degree(topology, v) = ac.num
             /\ \A v \in GNodes(topology) : Degree(topology, v) >= ac.num
             /\ DisconnectedNoIsolated(topology) => ac.num > 0

\* C28 witness: the metric of a disconnected topology without isolated
\* nodes has been computed and is not 0.
C28_Witness ==
    /\ fabric_metrics.computed
    /\ DisconnectedNoIsolated(topology)
    /\ fabric_metrics.algebraic_connectivity = [num |-> 1, den |-> topology.n]

\* The call of caller c returns from the success path in this step.
SuccessReturn(c) == pc[c] = "dissolve" /\ pc'[c] = "idle" /\ ret'[c].event.success

SyncFailedReturn(c) ==
    /\ SyncReturn(c)
    /\ kuramoto.coherence # NoSample
    /\ ~IsConsciousLevel(kuramoto.coherence)

\* C30: when the coherence after Synchronize is below the conscious level
\* the event is finalized as failed with the measured coherence as its
\* achieved coherence, and for that event the fabric does not enter
\* ignition mode and nothing is broadcast.
C30_SyncFailure ==
    [][\A c \in Callers :
          SyncFailedReturn(c)
             => /\ pc'[c] = "idle"
                /\ ret'[c].event.finalized
                /\ ~ret'[c].event.success
                /\ ret'[c].event.achieved = kuramoto.coherence
                /\ "broadcast" \notin {ret'[c].event.phases[k] : k \in DOMAIN ret'[c].event.phases}
                /\ UNCHANGED <<node_state, conn_weight>>]_vars


\* C31: Prepare recruits exactly the nodes whose state is Active or
\* IgnitionMode, never an Initializing or Degraded one, and the topology
\* handed to the oscillator network has exactly the participants as keys
\* and, as each participant's neighbours, only other participants at the
\* remote end of one of its connections whose active flag is set.
C31_PrepareTopology ==
    [][PrepareTopology =>
        /\ \A n \in Nodes :
              (n \in prepared'.participating) <=> (node_state[n] \in {"active", "esgt_mode"})
        /\ \A n \in prepared'.participating : node_state[n] \notin {"initializing", "degraded"}
        /\ DOMAIN prepared'.topology = prepared'.participating
        /\ \A n \in DOMAIN prepared'.topology :
              \A w \in prepared'.topology[n] :
                 /\ w \in prepared'.participating
                 /\ w # n
                 /\ w \in Neighbours(n)
                 /\ conn_active[<<n, w>>]]_vars

\* An ignition prepared on a fabric with a Degraded node that an active
\* connection of a participant leads to, where a participant keeps a
\* neighbour and a participant has an inactive connection to another.
C31_Witness ==
    /\ prepared.built
    /\ \E n \in prepared.participating :
          \E w \in Neighbours(n) : node_state[w] = "degraded" /\ conn_active[<<n, w>>]
    /\ \E n \in prepared.participating : prepared.topology[n] # {}
    /\ \E n \in prepared.participating :
          \E w \in Neighbours(n) : w \in prepared.participating /\ ~conn_active[<<n, w>>]


\* The call of caller c is admitted and its trigger check reaches the
\* temporal gating: the salience and the resource checks have passed.
ReachesGating(c) ==
    /\ pc[c] = "idle"
    /\ Len(events') = Len(events) + 1
    /\ total_events' = total_events + 1
    /\ ret'[c].kind # "raised"
    /\ events'[Len(events')].reason \notin {"Salience too low", "Insufficient resources"}

\* C32: an admitted attempt passes the temporal gating only if the time
\* since the last ignition is at least the refractory period (or there
\* was no ignition) and the recent-event count is below its cap;
\* otherwise it returns a Failed event with the refractory-violation
\* reason, recorded in history, and no protocol phase is executed.
C32_TemporalGating ==
    [][\A c \in Callers :
        ReachesGating(c) =>
            LET i == Len(events')
                e == events'[i]
                elapsedOk == last_esgt_time = NoTime \/ now - last_esgt_time >= refractory_period
                belowCap == RecentCount < max_recent_events
            IN IF elapsedOk /\ belowCap
               THEN /\ e.reason # "Refractory period violation"
                    /\ e.phases[1] = "prepare"
               ELSE /\ e.phase = "failed"
                    /\ e.phases = <<"failed">>
                    /\ e.finalized /\ ~e.success
                    /\ e.reason = "Refractory period violation"
                    /\ event_history' = Append(event_history, i)
                    /\ pc'[c] = "idle"
                    /\ ret'[c] = [kind |-> "event", id |-> i, event |-> e]
                    /\ UNCHANGED <<kuramoto, node_state, conn_weight, active_events,
                                   last_esgt_time, successful_events>>]_vars

\* After one completed ignition, an attempt in the refractory period and,
\* later, one outside it that met a full recent-event window were both
\* returned Failed with the refractory-violation reason.
C32_Witness ==
    /\ successful_events = 1
    /\ \E i \in DOMAIN event_history :
          /\ i <= max_recent_events
          /\ events[event_history[i]].reason = "Refractory period violation"
    /\ \E j \in DOMAIN event_history :
          /\ events[event_history[j]].reason = "Refractory period violation"
          /\ events[event_history[j]].t0 - last_esgt_time >= refractory_period


\* C33: in _execute_with_dependencies no task starts executing before
\* every task id in its dependencies has a result, and the tasks whose
\* dependencies are all satisfied in the same round are handed to one
\* gather, where they run concurrently.
C33_DependencyOrder ==
    [][/\ \A t \in TaskIds :
            (t \in mission'.executed \ mission.executed) =>
                /\ \A dep_id \in mission.dependencies[t] :
                      dep_id \in DOMAIN mission.results /\ dep_id \in mission.executed
                /\ t \notin DOMAIN mission.results
       /\ (mission'.pc = "gather" /\ mission'.started = {} /\ mission' # mission) =>
             mission'.ready_tasks =
                {t \in mission'.pending_tasks :
                    mission'.dependencies[t] \subseteq DOMAIN mission'.results}]_vars

\* Two tasks that depend on a task with a result are executing at once:
\* both have started and neither has returned.
C33_Witness ==
    /\ mission.pc = "gather"
    /\ \E t, u \in mission.started \ DOMAIN mission.task_results :
          /\ t # u
          /\ mission.dependencies[t] # {}
          /\ mission.dependencies[u] # {}


\* The subtasks that depend, directly or through others, on subtask t.
RECURSIVE DependsOnWithin(_, _, _)
DependsOnWithin(m, t, k) ==
    IF k = 0 THEN {}
    ELSE LET direct == m.dependencies[t] \cap DOMAIN m.dependencies
         IN direct \cup UNION {DependsOnWithin(m, d, k - 1) : d \in direct}

\* Subtask t is on a cycle of the dependency graph.
OnCycle(m, t) == t \in DependsOnWithin(m, t, Cardinality(DOMAIN m.dependencies))

\* C34: _execute_with_dependencies terminates for every task set and
\* dependency graph, cycles included; tasks on a cycle are never
\* executed, and the result map holds exactly the executed tasks (none
\* when every task is on a cycle).
C34_Terminates ==
    /\ <>(mission.pc = "done")
    /\ [](\A t \in DOMAIN mission.dependencies : OnCycle(mission, t) => t \notin mission.executed)
    /\ []((mission.pc = "done") =>
            (/\ DOMAIN mission.results = mission.executed
             /\ (\A t \in DOMAIN mission.dependencies : OnCycle(mission, t))
                    => (mission.results = <<>>)))

\* The executor returned for a decomposition with a cycle: a task off
\* the cycle ran and has a result, the tasks on the cycle are pending.
C34_Witness ==
    /\ mission.pc = "done"
    /\ \E t, u \in DOMAIN mission.dependencies :
          /\ t # u
          /\ OnCycle(mission, t)
          /\ u \in mission.dependencies[t] /\ OnCycle(mission, u)
          /\ t \in mission.pending_tasks
    /\ \E v \in DOMAIN mission.results : TRUE


\* C40: a complex mission is reported COMPLETED only if every subtask
\* the decomposer returned was executed and finished COMPLETED; a
\* decomposition without subtasks, or whose subtasks never run, is not
\* reported COMPLETED.
C40_CompletedOnlyIfAllRan ==
    (mission.status = "COMPLETED") =>
        /\ DOMAIN mission.dependencies # {}
        /\ \A t \in DOMAIN mission.dependencies :
              /\ t \in mission.executed
              /\ t \in DOMAIN mission.results
              /\ mission.results[t] = "COMPLETED"


\* C35: once the calls made have returned (no coordinator stop),
\* total_events is the number of events in event_history,
\* successful_events the number of those with success set, and
\* successful_events is at most total_events.
C35_StatisticsMatchHistory ==
    (\A c \in Callers : pc[c] \in {"idle", "off"}) =>
        /\ total_events = Len(event_history)
        /\ \A i, j \in DOMAIN event_history : (i # j) => (event_history[i] # event_history[j])
        /\ successful_events =
              Cardinality({i \in DOMAIN event_history : events[event_history[i]].success})
        /\ successful_events <= total_events


\* C36: at the start of every ignition's Synchronize phase the coupling
\* strength of the oscillators is the configured one: the halving of
\* Dissolve neither persists nor accumulates across ignitions.
C36_CouplingRestored ==
    [][\A c \in Callers :
        (pc[c] = "idle" /\ pc'[c] = "sync") => (kuramoto.halvings = 0)]_vars


\* C37: at most one initialization runs on a fabric: initialize() called
\* while a background initialization is in progress runs no second one
\* (no new graph, nodes or health monitoring), and is_ready() is never
\* true while is_initializing() is true or a node is Initializing.
C37_SingleInitialization ==
    /\ [](tig_initialized =>
            (~initializing /\ \A n \in Nodes : node_state[n] # "initializing"))
    /\ [][(FabInitialize /\ InitInProgress)
            => UNCHANGED <<graph, node_state, monitoring, tig_initialized>>]_vars


\* stop() returns.
StopReturns == (FabStop /\ stop_pc' = "idle") \/ FabStopResume

\* C38: after stop() has returned, is_ready() and is_initializing() are
\* both false (get_init_status reports neither "ready" nor
\* "initializing"), whether the fabric was ready or initializing in the
\* background, and broadcast_global on the stopped fabric raises the
\* not-initialized error.
C38_StoppedNotReady ==
    [][/\ StopReturns => (~tig_initialized' /\ ~initializing')
       /\ (BroadcastGlobalStep /\ ~executor_open /\ node_state = AllNodes("absent"))
             => bcast_ret'.raised]_vars


\* C39: enter_esgt_mode and exit_esgt_mode change the state of Active
\* nodes only: a node that is Degraded or Initializing before an
\* ignition is in the same state after it, so no ignition turns a
\* Degraded node into a recruitable one.
C39_DegradedStays ==
    [][\A n \in Nodes :
        (node_state[n] \in {"degraded", "initializing"}) => (node_state'[n] = node_state[n])]_vars

====
